---- MODULE Spec2Model ----
(***************************************************************************)
(* Model of scripts/eval_before_after.py: main() evaluates a base model   *)
(* and a fine-tuned model on the same test set with compute_perplexity()  *)
(* and prints the relative improvement.                                   *)
(*                                                                         *)
(* Abstractions.  A text is the sequence of the tokens the tokenizer      *)
(* would cut it into.  A float is an exact rational; np.exp(x) of a       *)
(* finite x is kept symbolic as [kind |-> "exp", n, d] for exp(n/d), and  *)
(* is "inf" above the float64 overflow threshold.  The model forward pass  *)
(* is an external collaborator: it returns a loss drawn from Losses or    *)
(* raises.  calls and answers record what the models were asked and what  *)
(* they answered; the program does not read them.                         *)
(***************************************************************************)
EXTENDS Integers, Sequences, FiniteSets

\* ---------------------------------------------------------------- bounds

MaxRecords == 3
MaxBatchSize == 3

\* ------------------------------------------------------------ test inputs

Words(n) == [k \in 1..n |-> "w"]

\* A JSONL record: its members, in file order, as <<key, text>> pairs.
\* One has no subject and renders to 10 tokens, the other no body and 30 tokens.
RecordKinds ==
    { << <<"body", Words(8)>> >>,
      << <<"subject", Words(28)>> >> }

MaxLengths == {8, 512}

\* Mean per-token losses the forward pass may return.
Losses == {2, 4, 710}

RECURSIVE SeqsUpTo(_, _)
SeqsUpTo(S, n) ==
    IF n = 0 THEN { <<>> }
    ELSE LET shorter == SeqsUpTo(S, n - 1)
         IN  shorter \cup { Append(s, x) : s \in { t \in shorter : Len(t) = n - 1 }, x \in S }

\* --------------------------------------------------------------- helpers

Min(a, b) == IF a < b THEN a ELSE b
Max(a, b) == IF a > b THEN a ELSE b

RECURSIVE GCD(_, _)
GCD(a, b) == IF b = 0 THEN a ELSE GCD(b, a % b)

RECURSIVE SumTo(_, _)
SumTo(s, n) == IF n = 0 THEN 0 ELSE s[n] + SumTo(s, n - 1)
SumSeq(s) == SumTo(s, Len(s))

RECURSIVE MaxTo(_, _)
MaxTo(s, n) == IF n = 0 THEN 0 ELSE Max(s[n], MaxTo(s, n - 1))
MaxSeq(s) == MaxTo(s, Len(s))

\* ------------------------------------------------- compute_perplexity parts

\* range(0, len(data), batch_size): the loop goes on while i < len(data) ...
RangeHasNext(i, n) == i < n

\* ... and steps by batch_size.
RangeStepSkip(i, bs) == i + bs + 1
RangeStep(i, bs) == i + bs

\* data[i:j] (Python slice, 0-based, j clipped to len(data)).
SliceShort(s, i, j) == SubSeq(s, i + 1, Min(j - 1, Len(s)))
Slice(s, i, j) == SubSeq(s, i + 1, Min(j, Len(s)))

\* d.get(key, '')
Get(d, key) ==
    IF \E k \in 1..Len(d) : d[k][1] = key
    THEN d[CHOOSE k \in 1..Len(d) : d[k][1] = key][2]
    ELSE <<>>

\* f"Subject: {d.get('subject', '')}\n\n{d.get('body', '')}"
Render(d) == <<"Subject:">> \o Get(d, "subject") \o <<"\n\n">> \o Get(d, "body")

RenderAll(batch) == [k \in 1..Len(batch) |-> Render(batch[k])]

\* truncation=True, max_length=max_length: keep the first max_length tokens.
Truncate(text, m) == SubSeq(text, 1, Min(Len(text), m))

\* tokenizer(texts, padding=True, truncation=True, max_length=max_length):
\* every row is padded to the longest truncated text of the batch.
Tokenize(texts, m) ==
    LET trunc == [k \in 1..Len(texts) |-> Truncate(texts[k], m)]
        width == MaxSeq([k \in 1..Len(texts) |-> Len(trunc[k])])
    IN  [ input_ids |->
            [k \in 1..Len(texts) |->
                [j \in 1..width |-> IF j <= Len(trunc[k]) THEN trunc[k][j] ELSE "<pad>"]],
          attention_mask |->
            [k \in 1..Len(texts) |->
                [j \in 1..width |-> IF j <= Len(trunc[k]) THEN 1 ELSE 0]] ]

NoEncodings == [input_ids |-> <<>>, attention_mask |-> <<>>]

\* encodings['input_ids'].shape: <<rows, width>>.
Shape(enc) ==
    <<Len(enc.input_ids), IF enc.input_ids = <<>> THEN 0 ELSE Len(enc.input_ids[1])>>

\* The padded size of a batch: rows x width.
PaddedCount(enc) == Shape(enc)[1] * Shape(enc)[2]

\* encodings['attention_mask'].sum().item()
NumTokens(enc) ==
    SumSeq([k \in 1..Len(enc.attention_mask) |-> SumSeq(enc.attention_mask[k])])

\* total_loss = 0 / total_tokens = 0 at the start of every call.
CarriedTotal(old) == old
InitialTotal(old) == 0

\* total_loss += loss * num_tokens
AddUnweighted(total, l, n) == total + l
AddWeighted(total, l, n) == total + l * n

\* ------------------------------------------------------------ float values

Rat(n, d) == LET g == GCD(n, d) IN <<n \div g, d \div g>>

NoValue == [kind |-> "none", n |-> 0, d |-> 1]
Inf == [kind |-> "inf", n |-> 0, d |-> 1]
ExpOf(n, d) == [kind |-> "exp", n |-> Rat(n, d)[1], d |-> Rat(n, d)[2]]

\* Hundredths of the largest x with a finite float64 exp(x) (709.78...).
ExpOverflowCenti == 70978

NaN == [kind |-> "nan", n |-> 0, d |-> 1]

\* total_loss / total_tokens: Python raises ZeroDivisionError on a zero divisor.
TrueDivNaN(tl, tt) ==
    IF tt = 0 THEN [kind |-> "nan", n |-> 0, d |-> 1]
    ELSE [kind |-> "num", n |-> tl, d |-> tt]
TrueDiv(tl, tt) ==
    IF tt = 0 THEN [kind |-> "ZeroDivisionError", n |-> 0, d |-> 1]
    ELSE [kind |-> "num", n |-> tl, d |-> tt]

\* np.exp(avg_loss): nan for nan, and inf (with a warning) above the threshold.
NpExp(q) ==
    IF q.kind = "nan" THEN NaN
    ELSE IF q.n * 100 > ExpOverflowCenti * q.d THEN Inf
    ELSE ExpOf(q.n, q.d)

\* a < b on perplexities (exp is increasing).
Less(a, b) ==
    CASE a.kind = "inf" -> FALSE
      [] b.kind = "inf" -> TRUE
      [] OTHER -> a.n * b.d < b.n * a.d

\* ((base_ppl - finetuned_ppl) / base_ppl) * 100 in float64 arithmetic:
\* inf - inf and inf / inf are nan, (x - inf) / x is -inf for finite x > 0.
NoImprovement == [kind |-> "none", sign |-> 0]
Improvement(b, f) ==
    CASE b.kind = "inf" -> [kind |-> "nan", sign |-> 0]
      [] f.kind = "inf" -> [kind |-> "-inf", sign |-> -1]
      [] OTHER -> [kind |-> "finite",
                   sign |-> IF Less(f, b) THEN 1 ELSE IF Less(b, f) THEN -1 ELSE 0]

\* What the forward pass may raise.
ScorerErrors == {"OutOfMemoryError"}

\* An exception that leaves compute_perplexity is caught nowhere: main ends.
RetryBatch == "forward"
AfterRaise == "aborted"

\* del base_model; torch.cuda.empty_cache()
KeepModel(models, m) == models
Release(models, m) == models \ {m}

\* ------------------------------------------------------------------ state

VARIABLES
    data,           \* test_data
    batch_size,     \* args.batch_size
    max_length,     \* args.max_length
    pc,             \* where the program is
    pass,           \* which model compute_perplexity is running on
    resident,       \* the models that are loaded
    i,              \* the loop index of compute_perplexity
    encodings,      \* the tokenized batch
    loss,           \* outputs.loss.item()
    total_loss,
    total_tokens,
    base_ppl,
    finetuned_ppl,
    improvement,
    printed,        \* what main has printed, in order
    error,          \* the exception that ended the run
    calls,          \* per model, the batches it was called on, in order
    answers         \* the losses the model returned in the pass under way

vars == <<data, batch_size, max_length, pc, pass, resident, i, encodings, loss,
          total_loss, total_tokens, base_ppl, finetuned_ppl, improvement,
          printed, error, calls, answers>>

inputs == <<data, batch_size, max_length>>
locals == <<i, encodings, loss, total_loss, total_tokens>>
results == <<base_ppl, finetuned_ppl, improvement>>

Init ==
    /\ data \in SeqsUpTo(RecordKinds, MaxRecords)
    /\ batch_size \in 1..MaxBatchSize
    /\ max_length \in MaxLengths
    /\ pc = "load_base"
    /\ pass = "none"
    /\ resident = {}
    /\ i = 0
    /\ encodings = NoEncodings
    /\ loss = 0
    /\ total_loss = 0
    /\ total_tokens = 0
    /\ base_ppl = NoValue
    /\ finetuned_ppl = NoValue
    /\ improvement = NoImprovement
    /\ printed = <<>>
    /\ error = "none"
    /\ calls = [base |-> <<>>, ft |-> <<>>]
    /\ answers = <<>>

\* ---------------------------------------------------------------- actions

\* base_model = AutoModelForCausalLM.from_pretrained(args.base_model)
LoadBase ==
    /\ pc = "load_base"
    /\ resident' = resident \cup {"base"}
    /\ pc' = "call_base"
    /\ UNCHANGED <<inputs, pass, locals, results, printed, error, calls, answers>>

\* compute_perplexity(...) is entered: its locals start afresh.
Enter ==
    /\ pc \in {"call_base", "call_ft"}
    /\ pass' = IF pc = "call_base" THEN "base" ELSE "ft"
    /\ total_loss' = InitialTotal(total_loss)
    /\ total_tokens' = InitialTotal(total_tokens)
    /\ i' = 0
    /\ encodings' = NoEncodings
    /\ loss' = 0
    /\ answers' = <<>>
    /\ pc' = "loop"
    /\ UNCHANGED <<inputs, resident, results, printed, error, calls>>

\* The loop head: the next batch is sliced, rendered and tokenized.
NextBatch ==
    /\ pc = "loop"
    /\ RangeHasNext(i, Len(data))
    /\ encodings' = Tokenize(RenderAll(Slice(data, i, i + batch_size)), max_length)
    /\ pc' = "forward"
    /\ UNCHANGED <<inputs, pass, resident, i, loss, total_loss, total_tokens,
                   results, printed, error, calls, answers>>

\* The loop is over.
LoopExit ==
    /\ pc = "loop"
    /\ ~RangeHasNext(i, Len(data))
    /\ pc' = "finalize"
    /\ UNCHANGED <<inputs, pass, resident, locals, results, printed, error, calls, answers>>

\* The call of the model on the batch at hand.
Call ==
    [ i |-> i,
      batch |-> Slice(data, i, i + batch_size),
      shape |-> Shape(encodings),
      max_length |-> max_length,
      num_tokens |-> NumTokens(encodings) ]

\* outputs = model(**encodings, labels=...) returns a loss.
Forward ==
    /\ pc = "forward"
    /\ calls' = [calls EXCEPT ![pass] = Append(@, Call)]
    /\ \E l \in Losses :
        /\ loss' = l
        /\ answers' = Append(answers, l)
    /\ pc' = "accumulate"
    /\ UNCHANGED <<inputs, pass, resident, i, encodings, total_loss, total_tokens,
                   results, printed, error>>

\* outputs = model(...) raises (out of memory, invalid input).
ForwardRaises ==
    /\ pc = "forward"
    /\ calls' = [calls EXCEPT ![pass] = Append(@, Call)]
    /\ pc' = AfterRaise
    /\ \E e \in ScorerErrors : error' = e
    /\ UNCHANGED <<inputs, pass, resident, locals, results, printed, answers>>

\* total_loss += loss * num_tokens; total_tokens += num_tokens
Accumulate ==
    /\ pc = "accumulate"
    /\ total_loss' = AddWeighted(total_loss, loss, NumTokens(encodings))
    /\ total_tokens' = total_tokens + NumTokens(encodings)
    /\ i' = RangeStep(i, batch_size)
    /\ pc' = "loop"
    /\ UNCHANGED <<inputs, pass, resident, encodings, loss, results, printed,
                   error, calls, answers>>

\* avg_loss = total_loss / total_tokens raises ZeroDivisionError.
FinalizeRaises ==
    /\ pc = "finalize"
    /\ TrueDiv(total_loss, total_tokens).kind = "ZeroDivisionError"
    /\ pc' = "aborted"
    /\ error' = "ZeroDivisionError"
    /\ UNCHANGED <<inputs, pass, resident, locals, results, printed, calls, answers>>

\* perplexity = np.exp(avg_loss); return perplexity; main prints it.
Finalize ==
    /\ pc = "finalize"
    /\ TrueDiv(total_loss, total_tokens).kind # "ZeroDivisionError"
    /\ LET ppl == NpExp(TrueDiv(total_loss, total_tokens))
       IN  IF pass = "base"
           THEN /\ base_ppl' = ppl
                /\ printed' = Append(printed, "base_ppl")
                /\ pc' = "release"
                /\ UNCHANGED finetuned_ppl
           ELSE /\ finetuned_ppl' = ppl
                /\ printed' = Append(printed, "finetuned_ppl")
                /\ pc' = "summary"
                /\ UNCHANGED base_ppl
    /\ UNCHANGED <<inputs, pass, resident, locals, improvement, error, calls, answers>>

\* del base_model; torch.cuda.empty_cache()
ReleaseBase ==
    /\ pc = "release"
    /\ resident' = Release(resident, "base")
    /\ pc' = "load_ft"
    /\ UNCHANGED <<inputs, pass, locals, results, printed, error, calls, answers>>

\* finetuned_model = AutoModelForCausalLM.from_pretrained(args.finetuned_model)
LoadFinetuned ==
    /\ pc = "load_ft"
    /\ resident' = resident \cup {"ft"}
    /\ pc' = "call_ft"
    /\ UNCHANGED <<inputs, pass, locals, results, printed, error, calls, answers>>

\* improvement = ((base_ppl - finetuned_ppl) / base_ppl) * 100 and the report.
Summary ==
    /\ pc = "summary"
    /\ improvement' = Improvement(base_ppl, finetuned_ppl)
    /\ printed' = Append(printed, "improvement")
    /\ pc' = "done"
    /\ UNCHANGED <<inputs, pass, resident, locals, base_ppl, finetuned_ppl, error, calls, answers>>

Next ==
    \/ LoadBase
    \/ Enter
    \/ NextBatch
    \/ LoopExit
    \/ Forward
    \/ ForwardRaises
    \/ Accumulate
    \/ FinalizeRaises
    \/ Finalize
    \/ ReleaseBase
    \/ LoadFinetuned
    \/ Summary

Spec == Init /\ [][Next]_vars

\* The interpreter runs the next statement whenever there is one.
FairSpec == Spec /\ WF_vars(Next)

\* ------------------------------------------------- what the claims speak of

CeilDiv(n, b) == (n + b - 1) \div b

NumBatches == CeilDiv(Len(data), batch_size)

RECURSIVE Concat(_)
Concat(ss) == IF ss = <<>> THEN <<>> ELSE ss[1] \o Concat(Tail(ss))

\* Of the first n calls of a log, answered by ls: the token total, the
\* token-weighted loss total and the plain loss total.
TokenSum(log, n) == SumSeq([k \in 1..n |-> log[k].num_tokens])
WeightedLossSum(log, ls, n) == SumSeq([k \in 1..n |-> ls[k] * log[k].num_tokens])
LossSum(ls) == SumSeq(ls)

\* The number of batches whose results the running totals hold.
NumAccumulated == IF pc = "accumulate" THEN Len(answers) - 1 ELSE Len(answers)

InPass == pc \in {"loop", "forward", "accumulate", "finalize"}

\* The batches a pass has handed to the model, in order.
BatchesOf(p) == [k \in 1..Len(calls[p]) |-> calls[p][k].batch]

\* exp of the token-weighted mean of the answers to a complete log.
WeightedPpl(log, ls) ==
    NpExp([kind |-> "num", n |-> WeightedLossSum(log, ls, Len(log)),
                           d |-> TokenSum(log, Len(log))])

\* ---------------------------------------------------------------- claims

\* C1: when the batching loop of a pass is over, it has produced exactly
\* ceil(N / batch_size) batches, all but the last of size batch_size, the
\* last of size N - batch_size * (ceil(N / batch_size) - 1), which is between
\* 1 and batch_size, and the batches concatenated in order are the records.
TheoremC1 ==
    pc = "finalize" =>
        LET bs == BatchesOf(pass)
            n == Len(bs)
        IN  /\ n = NumBatches
            /\ \A k \in 1..(n - 1) : Len(bs[k]) = batch_size
            /\ n > 0 =>
                  /\ Len(bs[n]) = Len(data) - batch_size * (n - 1)
                  /\ Len(bs[n]) >= 1
                  /\ Len(bs[n]) <= batch_size
            /\ Concat(bs) = data

\* A pass over three records in batches of two: a full batch and a short one.
WitnessC1 ==
    /\ pc = "finalize"
    /\ Len(data) = 3
    /\ batch_size = 2
    /\ Len(calls[pass]) = 2
    /\ Len(calls[pass][2].batch) = 1

\* C2: after k batches of a pass have been scored and accumulated,
\* total_tokens is the sum of their token counts and total_loss the sum of
\* their mean losses times their token counts; the perplexity returned is
\* exp of total_loss / total_tokens, the token-weighted mean (3.5 for the
\* batches (2, 10 tokens) and (4, 30 tokens)), not the mean of the means.
TheoremC2 ==
    /\ InPass =>
          /\ total_tokens = TokenSum(calls[pass], NumAccumulated)
          /\ total_loss = WeightedLossSum(calls[pass], answers, NumAccumulated)
    /\ (pass = "base" /\ base_ppl # NoValue) => base_ppl = WeightedPpl(calls.base, answers)
    /\ finetuned_ppl # NoValue => finetuned_ppl = WeightedPpl(calls.ft, answers)
    /\ ( /\ pass = "base"
         /\ base_ppl # NoValue
         /\ answers = <<2, 4>>
         /\ calls.base[1].num_tokens = 10
         /\ calls.base[2].num_tokens = 30 )
       => /\ base_ppl = [kind |-> "exp", n |-> 7, d |-> 2]
          /\ base_ppl # ExpOf(LossSum(answers), Len(answers))

\* The base pass scored (2, 10 tokens) and (4, 30 tokens) and returned exp(3.5).
WitnessC2 ==
    /\ pass = "base"
    /\ answers = <<2, 4>>
    /\ Len(calls.base) = 2
    /\ calls.base[1].num_tokens = 10
    /\ calls.base[2].num_tokens = 30
    /\ base_ppl = [kind |-> "exp", n |-> 7, d |-> 2]

\* C3: a pass that accumulates no batch (no records, so total_tokens = 0 when
\* the loop is over) ends in an error: no perplexity is returned or printed,
\* neither 1.0 nor nan nor infinity, and the run goes no further.
TheoremC3 ==
    /\ data = <<>> =>
          /\ base_ppl = NoValue
          /\ finetuned_ppl = NoValue
          /\ improvement = NoImprovement
          /\ printed = <<>>
          /\ pc \in {"load_base", "call_base", "loop", "finalize", "aborted"}
          /\ pc = "aborted" => error = "ZeroDivisionError"
    /\ (pc = "finalize" /\ total_tokens = 0) => calls[pass] = <<>>
    /\ error = "ZeroDivisionError" =>
          /\ pc = "aborted"
          /\ total_tokens = 0
          /\ IF pass = "base" THEN base_ppl = NoValue ELSE finetuned_ppl = NoValue
          /\ ~ENABLED Next

\* The pass over no records has failed with the division error.
WitnessC3 ==
    /\ data = <<>>
    /\ pc = "aborted"
    /\ error = "ZeroDivisionError"
    /\ calls[pass] = <<>>

\* C4: when the forward pass raises on a batch of either pass the run ends
\* there: the batch is not tried again, no later batch is scored, the pass
\* returns and prints no perplexity, and no improvement is reported.
TheoremC4 ==
    /\ \A p \in {"base", "ft"} : \A j, k \in 1..Len(calls[p]) :
          j < k => calls[p][j].i < calls[p][k].i
    /\ (pass # "none" /\ error \notin ScorerErrors) => Len(calls[pass]) = Len(answers)
    /\ error \in ScorerErrors =>
          /\ pc = "aborted"
          /\ ~ENABLED Next
          /\ Len(calls[pass]) = Len(answers) + 1
          /\ improvement = NoImprovement
          /\ \A k \in 1..Len(printed) : printed[k] # "improvement"
          /\ pass = "base" =>
                /\ base_ppl = NoValue
                /\ finetuned_ppl = NoValue
                /\ printed = <<>>
                /\ calls.ft = <<>>
          /\ pass = "ft" =>
                /\ finetuned_ppl = NoValue
                /\ printed = <<"base_ppl">>

\* The second batch of the fine-tuned pass has raised.
WitnessC4 ==
    /\ pc = "aborted"
    /\ error \in ScorerErrors
    /\ pass = "ft"
    /\ Len(calls.ft) = 2
    /\ Len(answers) = 1
    /\ Len(data) = 3

\* C5: compute_perplexity never returns infinity: an average loss whose
\* exponential overflows is reported as an error.
CounterexampleC5 ==
    /\ base_ppl.kind # "inf"
    /\ finetuned_ppl.kind # "inf"

\* The base pass has scored all its batches and returned its perplexity.
BasePassOver ==
    /\ base_ppl # NoValue
    /\ Len(calls.base) = NumBatches
    /\ printed # <<>>
    /\ printed[1] = "base_ppl"

\* C6: the base pass scores all its batches and returns the base perplexity
\* before the base model is released, the base model is released before the
\* fine-tuned model is loaded, the two models are never loaded together, and
\* the fine-tuned model scores nothing before the base pass is over.
TheoremC6 ==
    /\ ~({"base", "ft"} \subseteq resident)
    /\ pc \in {"load_ft", "call_ft", "summary", "done"} => "base" \notin resident
    /\ (pc \notin {"load_base", "call_base"} /\ "base" \notin resident) => BasePassOver
    /\ "ft" \in resident => BasePassOver
    /\ calls.ft # <<>> => (BasePassOver /\ resident = {"ft"})
    /\ (pass = "base" /\ InPass) => resident = {"base"}
    /\ (pass = "ft" /\ InPass) => resident = {"ft"}

\* The fine-tuned model is scoring while the base model is gone.
WitnessC6 ==
    /\ resident = {"ft"}
    /\ pass = "ft"
    /\ pc = "accumulate"
    /\ Len(calls.base) = 3
    /\ Len(calls.ft) = 2

\* The batches of the records, by position.
ExpectedBatches ==
    [k \in 1..NumBatches |->
        SubSeq(data, (k - 1) * batch_size + 1, Min(k * batch_size, Len(data)))]

\* The tokens of a text that are left after truncation, per text of a batch.
TruncatedLens(batch, m) == [k \in 1..Len(batch) |-> Min(Len(Render(batch[k])), m)]

\* What a pass on its own returns when the model answers with these losses.
StandalonePpl(losses) ==
    LET tokens == [k \in 1..NumBatches |->
                      SumSeq(TruncatedLens(ExpectedBatches[k], max_length))]
    IN  NpExp(TrueDiv(SumSeq([k \in 1..NumBatches |-> losses[k] * tokens[k]]),
                      SumSeq(tokens)))

\* C7: the fine-tuned pass starts from zero totals and hands its model the
\* batches the base pass handed to the base model (same boundaries, order,
\* texts and max_length), so its perplexity is the one a pass on its own
\* over the same records gives for the same losses, whatever the base pass
\* returned.
TheoremC7 ==
    /\ (pass = "ft" /\ InPass /\ answers = <<>>) =>
          (total_loss = 0 /\ total_tokens = 0 /\ i = 0)
    /\ Len(calls.ft) <= Len(calls.base)
    /\ \A k \in 1..Len(calls.ft) : calls.ft[k] = calls.base[k]
    /\ finetuned_ppl # NoValue =>
          /\ calls.ft = calls.base
          /\ finetuned_ppl = StandalonePpl(answers)

\* Both passes are over, on three batches, with different perplexities.
WitnessC7 ==
    /\ pc = "done"
    /\ Len(calls.ft) = 3
    /\ base_ppl # finetuned_ppl
    /\ base_ppl.kind = "exp"
    /\ finetuned_ppl.kind = "exp"

\* The sign of a float; nan has none.
Negative(x) == x.kind \in {"finite", "-inf"} /\ x.sign = -1
Zero(x) == x.kind = "finite" /\ x.sign = 0
Positive(x) == x.kind \in {"finite", "inf"} /\ x.sign = 1

\* C8: for a base perplexity above 0, the improvement reported, ((base -
\* fine-tuned) / base) * 100, is negative exactly when the fine-tuned
\* perplexity is above the base perplexity, zero when they are equal and
\* positive when it is below.
CounterexampleC8 ==
    pc = "done" =>
        /\ Negative(improvement) <=> Less(base_ppl, finetuned_ppl)
        /\ base_ppl = finetuned_ppl => Zero(improvement)
        /\ Less(finetuned_ppl, base_ppl) => Positive(improvement)

\* Of a call: its texts differ in length after truncation ...
Unequal(call) ==
    LET lens == TruncatedLens(call.batch, call.max_length)
    IN  \E j, k \in 1..Len(lens) : lens[j] # lens[k]

\* ... and its padded size, rows x width.
PaddedSize(call) == call.shape[1] * call.shape[2]

PaddedSum(log) == SumSeq([k \in 1..Len(log) |-> PaddedSize(log[k])])
PaddedLossSum(log, ls) == SumSeq([k \in 1..Len(log) |-> ls[k] * PaddedSize(log[k])])

\* The average loss of a complete log weighted by padded sizes is another one.
PaddingChangesAverage(log, ls) ==
    PaddedLossSum(log, ls) * TokenSum(log, Len(log))
        # WeightedLossSum(log, ls, Len(log)) * PaddedSum(log)

\* The count of every batch of a pass is the tokens left after truncation,
\* text by text: of the batch just tokenized, and of those scored before it.
CountsNonPadding ==
    /\ pc \in {"forward", "accumulate"} =>
          NumTokens(encodings)
              = SumSeq(TruncatedLens(ExpectedBatches[(i \div batch_size) + 1], max_length))
    /\ pass # "none" =>
          \A k \in 1..Len(calls[pass]) :
              calls[pass][k].num_tokens
                  = SumSeq(TruncatedLens(calls[pass][k].batch, calls[pass][k].max_length))
    /\ InPass => total_tokens = TokenSum(calls[pass], NumAccumulated)

TheoremC10 ==
    /\ InPass =>
          /\ Len(calls[pass]) = Len(answers)
          /\ \A k \in 1..Len(calls[pass]) : calls[pass][k].i = (k - 1) * batch_size
          /\ Len(calls[pass]) <= NumBatches
    /\ pc \in {"loop", "forward", "finalize"} =>
          /\ i = batch_size * Len(calls[pass])
          /\ total_tokens = TokenSum(calls[pass], Len(calls[pass]))
          /\ total_loss = WeightedLossSum(calls[pass], answers, Len(calls[pass]))
    /\ pc = "forward" => (i < Len(data) /\ Len(calls[pass]) < NumBatches)
    /\ pc = "accumulate" =>
          /\ i = batch_size * (Len(calls[pass]) - 1)
          /\ total_tokens = TokenSum(calls[pass], Len(calls[pass]) - 1)
          /\ total_loss = WeightedLossSum(calls[pass], answers, Len(calls[pass]) - 1)
    /\ pc = "finalize" => Len(calls[pass]) = NumBatches
    /\ base_ppl # NoValue => Len(calls.base) = NumBatches
    /\ finetuned_ppl # NoValue => (Len(calls.ft) = NumBatches /\ Len(answers) = NumBatches)

\* Under FairSpec a pass that is entered returns or raises.
PassTerminates ==
    (pc \in {"call_base", "call_ft"}) ~> (pc \in {"release", "summary", "aborted"})

\* The third call of a pass is about to start, two results accumulated.
WitnessC10 ==
    /\ pc = "forward"
    /\ Len(calls[pass]) = 2
    /\ i = 2
    /\ total_tokens = calls[pass][1].num_tokens + calls[pass][2].num_tokens

====
